---- MODULE Spec2Model ----
(***************************************************************************)
(* Model of the pixel-data exchange traits of src/texture/mod.rs:          *)
(* Texture1dData (Vec<P>, &[P]), Texture2dData (Vec<Vec<P>>,                *)
(* image::ImageBuffer) and Texture3dData (Vec<Vec<Vec<P>>>).                *)
(*                                                                         *)
(* A run takes one source buffer, asks for its dimensions, flattens it     *)
(* with into_vec and rebuilds a buffer from the flat vector with from_vec. *)
(* A run of kind "raw" starts from a flat vector (data read back from the  *)
(* GPU) and only calls from_vec.  A Rust panic is the result Panic.        *)
(***************************************************************************)
EXTENDS Integers, Sequences, FiniteSets, TLC

VARIABLES kind,   \* which implementation the source buffer belongs to
          vec,    \* the 1D source (Vec<P> or &[P])
          rows,   \* the 2D source, Vec<Vec<P>>
          img,    \* the 2D source, image::ImageBuffer
          cube,   \* the 3D source, Vec<Vec<Vec<P>>>
          dims,   \* the last result of get_dimensions
          flat,   \* the flat Vec: result of into_vec, argument of from_vec
          width,  \* the width argument of the last from_vec
          height, \* the height argument of the last (3D) from_vec
          chan,   \* channel_count of the pixel type P of the last ImageBuffer from_vec
          op,     \* the last method called
          ret,    \* its result: Ok(value) or Panic
          pc      \* "start", "dims", "flat", "done"

vars == <<kind, vec, rows, img, cube, dims, flat, width, height, chan, op, ret, pc>>

----------------------------------------------------------------------------
(* Bounds of the explored inputs *)

MaxLen == 3        \* longest 1D buffer
MaxPixel == 2      \* 1D pixel values are 0..MaxPixel
MaxRows == 3       \* most rows of a nested 2D buffer
MaxCols == 3       \* longest row of a nested 2D buffer
MaxImgW == 3       \* widest image, in pixels
MaxImgH == 3       \* tallest image
MaxChannels == 4   \* most channels per image pixel
MaxBoxW == 2       \* box-shaped 3D buffers
MaxBoxH == 3
MaxBoxD == 2
MaxSlices == 2     \* 3D buffers of empty rows: most slices
MaxSliceRows == 2  \* 3D buffers of empty rows: most rows per slice
MaxFlat == 10      \* longest flat vector handed to from_vec directly

----------------------------------------------------------------------------
(* Results and library helpers *)

Ok(v) == [ok |-> TRUE, val |-> v]
Panic == [ok |-> FALSE, val |-> <<>>]

Min(a, b) == IF a < b THEN a ELSE b

\* `x as u32` and `x as uint` are the identity on every length and width
\* explored here (all far below 2^32), so the casts are not modelled.

\* slice.chunks(n) for n >= 1: consecutive chunks of n elements, the last one
\* shorter when n does not divide the length.  chunks(0) panics (callers test).
Chunks(s, n) ==
    [i \in 1..((Len(s) + n - 1) \div n) |-> SubSeq(s, (i - 1) * n + 1, Min(i * n, Len(s)))]

\* iterator.rev()
Rev(s) == [i \in 1..Len(s) |-> s[Len(s) + 1 - i]]

\* iterator.flat_map(|e| e.into_iter()).collect()
RECURSIVE FlatMap(_)
FlatMap(ss) == IF Len(ss) = 0 THEN <<>> ELSE Head(ss) \o FlatMap(Tail(ss))

\* image::ImageBuffer: dimensions in pixels, channels per pixel, raw container
Image(w, h, c, d) == [width |-> w, height |-> h, channels |-> c, data |-> d]

\* image::ImageBuffer::from_raw: None when the container is too small
FromRaw(w, h, c, d) == IF w * h * c <= Len(d) THEN Ok(Image(w, h, c, d)) ELSE Panic

----------------------------------------------------------------------------
(* impl Texture1dData for Vec<P> *)

Vec_into_vec(self) == Ok(self)

Vec_from_vec_reversed(data) == Ok(Rev(data))

Vec_from_vec(data) == Ok(data)

(* impl Texture1dData for &[P] *)

Slice_into_vec(self) == Ok(self)

Slice_from_vec_passthrough(data) == Ok(data)

Slice_from_vec(data) == Panic

----------------------------------------------------------------------------
(* impl Texture2dData for Vec<Vec<P>> *)

Nested_get_dimensions_swapped(self) ==
    Ok(<<Len(self), (IF Len(self) = 0 THEN 0 ELSE Len(self[1]))>>)

Nested_get_dimensions(self) ==
    Ok(<<(IF Len(self) = 0 THEN 0 ELSE Len(self[1])), Len(self)>>)

Nested_into_vec(self) == Ok(FlatMap(self))

Nested_from_vec_flipped(data, w) ==
    IF w = 0 THEN Panic ELSE Ok(Rev(Chunks(data, w)))

Nested_from_vec(data, w) ==
    IF w = 0 THEN Panic ELSE Ok(Chunks(data, w))

----------------------------------------------------------------------------
(* impl Texture2dData for image::ImageBuffer<Vec<T>, T, P> *)

Image_get_dimensions(self) == Ok(<<self.width, self.height>>)

\* raw.chunks(n).rev().flat_map(|row| row.iter()).map(|p| p.clone()).collect()
FlipRows(raw, n) == FlatMap(Rev(Chunks(raw, n)))

Image_into_vec_unflipped(self) ==
    IF self.width * self.channels = 0 THEN Panic ELSE Ok(self.data)

Image_into_vec(self) ==
    IF self.width * self.channels = 0
    THEN Panic
    ELSE Ok(FlipRows(self.data, self.width * self.channels))

Image_from_vec_unflipped(data, w, c) ==
    IF w * c = 0
    THEN Panic
    ELSE FromRaw(w, Len(data) \div (w * c), c, data)

Image_from_vec(data, w, c) ==
    IF w * c = 0
    THEN Panic
    ELSE FromRaw(w, Len(data) \div (w * c), c, FlipRows(data, w * c))

----------------------------------------------------------------------------
(* impl Texture3dData for Vec<Vec<Vec<P>>> *)

Cube_get_dimensions_swapped(self) ==
    Ok(<<(IF Len(self) = 0 THEN 0 ELSE Len(self[1])),
         (IF Len(self) = 0 \/ Len(self[1]) = 0 THEN 0 ELSE Len(self[1][1])),
         Len(self)>>)

Cube_get_dimensions(self) ==
    Ok(<<(IF Len(self) = 0 \/ Len(self[1]) = 0 THEN 0 ELSE Len(self[1][1])),
         (IF Len(self) = 0 THEN 0 ELSE Len(self[1])),
         Len(self)>>)

Cube_into_vec_slices_reversed(self) == Ok(FlatMap(FlatMap(Rev(self))))

Cube_into_vec(self) == Ok(FlatMap(FlatMap(self)))

Cube_from_vec(data, w, h) == Panic

----------------------------------------------------------------------------
(* Source buffers.  The implementations are generic over the pixel type and *)
(* only move or clone pixels, so 2D and 3D pixels are tagged with their     *)
(* position in the source, which makes every reordering visible.           *)

SeqsUpTo(S, n) == UNION {[1..k -> S] : k \in 0..n}

\* a Vec<Vec<P>> whose row y has shape[y] pixels
NestedOf(shape) == [y \in 1..Len(shape) |-> [x \in 1..shape[y] |-> 100 * y + x]]

\* a Vec<Vec<Vec<P>>> whose slice z has a row y of shape[z][y] pixels
CubeOf(shape) ==
    [z \in 1..Len(shape) |->
        [y \in 1..Len(shape[z]) |-> [x \in 1..shape[z][y] |-> 10000 * z + 100 * y + x]]]

\* an ImageBuffer of w x h pixels of c channels, as ImageBuffer::new makes it
ImageOf(w, h, c) == Image(w, h, c, [i \in 1..(w * h * c) |-> i])

\* all row-length profiles within the bounds, and 4 rows of 8 pixels
NestedShapes == SeqsUpTo(0..MaxCols, MaxRows) \cup {[y \in 1..4 |-> 8]}

BoxShapes ==
    {[z \in 1..d |-> [y \in 1..h |-> w]] : w \in 0..MaxBoxW, h \in 0..MaxBoxH, d \in 0..MaxBoxD}

EmptyRowShapes ==
    {[z \in 1..Len(s) |-> [y \in 1..s[z] |-> 0]] : s \in SeqsUpTo(0..MaxSliceRows, MaxSlices)}

CubeShapes == BoxShapes \cup EmptyRowShapes

NoImage == Image(0, 0, 1, <<>>)

NoCall ==
    /\ dims = <<>> /\ width = 0 /\ height = 0 /\ chan = 1
    /\ op = "none" /\ ret = Ok(<<>>)

InitVec ==
    /\ kind \in {"vec", "slice"} /\ vec \in SeqsUpTo(0..MaxPixel, MaxLen)
    /\ rows = <<>> /\ img = NoImage /\ cube = <<>> /\ flat = <<>>
    /\ pc = "start" /\ NoCall

InitNested ==
    /\ kind = "nested" /\ rows \in {NestedOf(s) : s \in NestedShapes}
    /\ vec = <<>> /\ img = NoImage /\ cube = <<>> /\ flat = <<>>
    /\ pc = "start" /\ NoCall

InitImage ==
    /\ kind = "image"
    /\ img \in {ImageOf(w, h, c) : w \in 0..MaxImgW, h \in 0..MaxImgH, c \in 1..MaxChannels}
    /\ vec = <<>> /\ rows = <<>> /\ cube = <<>> /\ flat = <<>>
    /\ pc = "start" /\ NoCall

InitCube ==
    /\ kind = "cube" /\ cube \in {CubeOf(s) : s \in CubeShapes}
    /\ vec = <<>> /\ rows = <<>> /\ img = NoImage /\ flat = <<>>
    /\ pc = "start" /\ NoCall

\* a flat vector that no into_vec of this module produced
InitRaw ==
    /\ kind = "raw" /\ flat \in {[i \in 1..n |-> i] : n \in 0..MaxFlat}
    /\ vec = <<>> /\ rows = <<>> /\ img = NoImage /\ cube = <<>>
    /\ pc = "flat" /\ NoCall

Init == InitVec \/ InitNested \/ InitImage \/ InitCube \/ InitRaw

----------------------------------------------------------------------------
(* One call of a trait method.  A panic ends the run. *)

Source == <<kind, vec, rows, img, cube>>

GetDimensionsStep(name, r) ==
    /\ pc = "start"
    /\ op' = name /\ ret' = r
    /\ dims' = (IF r.ok THEN r.val ELSE dims)
    /\ pc' = (IF r.ok THEN "dims" ELSE "done")
    /\ UNCHANGED <<Source, flat, width, height, chan>>

IntoVecStep(name, r) ==
    /\ op' = name /\ ret' = r
    /\ flat' = (IF r.ok THEN r.val ELSE flat)
    /\ pc' = (IF r.ok THEN "flat" ELSE "done")
    /\ UNCHANGED <<Source, dims, width, height, chan>>

FromVecStep(name, r, w, h, c) ==
    /\ pc = "flat"
    /\ op' = name /\ ret' = r
    /\ width' = w /\ height' = h /\ chan' = c
    /\ pc' = "done"
    /\ UNCHANGED <<Source, dims, flat>>

\* the width and height arguments a caller may pass with the vector
Hints == 0..(Len(flat) + 1)

VecIntoVec ==
    kind = "vec" /\ pc = "start" /\ IntoVecStep("Vec::into_vec", Vec_into_vec(vec))

VecFromVec ==
    kind \in {"vec", "slice", "raw"} /\ FromVecStep("Vec::from_vec", Vec_from_vec(flat), 0, 0, 1)

SliceIntoVec ==
    kind = "slice" /\ pc = "start" /\ IntoVecStep("Slice::into_vec", Slice_into_vec(vec))

SliceFromVec ==
    kind \in {"vec", "slice", "raw"}
    /\ FromVecStep("Slice::from_vec", Slice_from_vec(flat), 0, 0, 1)

NestedGetDimensions ==
    kind = "nested" /\ GetDimensionsStep("Nested::get_dimensions", Nested_get_dimensions(rows))

NestedIntoVec ==
    kind = "nested" /\ pc = "dims" /\ IntoVecStep("Nested::into_vec", Nested_into_vec(rows))

NestedFromVec ==
    /\ kind \in {"nested", "image", "raw"}
    /\ \E w \in Hints : FromVecStep("Nested::from_vec", Nested_from_vec(flat, w), w, 0, 1)

ImageGetDimensions ==
    kind = "image" /\ GetDimensionsStep("Image::get_dimensions", Image_get_dimensions(img))

ImageIntoVec ==
    kind = "image" /\ pc = "dims" /\ IntoVecStep("Image::into_vec", Image_into_vec(img))

ImageFromVec ==
    /\ kind \in {"nested", "image", "raw"}
    /\ \E w \in Hints, c \in 1..MaxChannels :
          FromVecStep("Image::from_vec", Image_from_vec(flat, w, c), w, 0, c)

CubeGetDimensions ==
    kind = "cube" /\ GetDimensionsStep("Cube::get_dimensions", Cube_get_dimensions(cube))

CubeIntoVec ==
    kind = "cube" /\ pc = "dims" /\ IntoVecStep("Cube::into_vec", Cube_into_vec(cube))

CubeFromVec ==
    /\ kind \in {"cube", "raw"}
    /\ \E w \in Hints, h \in Hints :
          FromVecStep("Cube::from_vec", Cube_from_vec(flat, w, h), w, h, 1)

Next ==
    \/ VecIntoVec \/ VecFromVec \/ SliceIntoVec \/ SliceFromVec
    \/ NestedGetDimensions \/ NestedIntoVec \/ NestedFromVec
    \/ ImageGetDimensions \/ ImageIntoVec \/ ImageFromVec
    \/ CubeGetDimensions \/ CubeIntoVec \/ CubeFromVec

Spec == Init /\ [][Next]_vars

----------------------------------------------------------------------------
(* Properties *)

\* every row as long as the first
Rect(b) == \A y \in 1..Len(b) : Len(b[y]) = Len(b[1])

\* every slice as tall as the first and every row as long as the first
Box(b) ==
    /\ \A z \in 1..Len(b) : Len(b[z]) = Len(b[1])
    /\ \A z \in 1..Len(b) : \A y \in 1..Len(b[z]) : Len(b[z][y]) = Len(b[1][1])

\* scanline k (from 0) of n elements of the flat sequence d
Scanline(d, n, k) == SubSeq(d, k * n + 1, (k + 1) * n)

\* an image was flattened and an image rebuilt from the result with the same
\* scanline length
C1_Case ==
    /\ kind = "image" /\ pc = "done" /\ op = "Image::from_vec"
    /\ img.width * img.channels >= 1
    /\ width * chan = img.width * img.channels

\* C1: reversing the scanlines of a flat sequence twice with the same row
\* width w >= 1, w dividing its length (ImageBuffer into_vec followed by
\* ImageBuffer from_vec), gives back the sequence element for element.
C1_FlipTwiceIsIdentity == C1_Case => ret.ok /\ ret.val.data = img.data

C1_Witness ==
    /\ C1_Case /\ img.height >= 3 /\ img.width * img.channels >= 2
    /\ ret.ok /\ ret.val.data = img.data /\ flat # img.data

\* a rectangular Vec<Vec<P>> was flattened and rebuilt with the width that
\* get_dimensions reported
C2_Case ==
    /\ kind = "nested" /\ pc = "done" /\ op = "Nested::from_vec"
    /\ Rect(rows) /\ width = dims[1]

\* C2 as stated: for every rectangular Vec<Vec<P>> B of width w as reported
\* by get_dimensions, from_vec(into_vec(B), w) reproduces B row for row.
C2_RoundTripAnyWidth == C2_Case => ret.ok /\ ret.val = rows

\* C2 amended: the round trip reproduces B row for row when w >= 1.
C2_RoundTripPositiveWidth == (C2_Case /\ dims[1] >= 1) => ret.ok /\ ret.val = rows

C2_Witness ==
    /\ C2_Case /\ dims[1] >= 2 /\ Len(rows) >= 3
    /\ ret.ok /\ ret.val = rows

\* C3: ImageBuffer into_vec of an image of h rows of w pixels of c channels
\* returns w*h*c elements whose scanline k is the source's scanline h-1-k,
\* unchanged inside.
C3_FlattenReversesRows ==
    (kind = "image" /\ op = "Image::into_vec") =>
        LET n == img.width * img.channels
            h == img.height
        IN  /\ ret.ok
            /\ Len(flat) = n * h
            /\ \A k \in 0..(h - 1) : Scanline(flat, n, k) = Scanline(img.data, n, h - 1 - k)

\* C4: a 2D from_vec of a flat sequence whose length the declared row width
\* (>= 1) does not divide fails and returns no buffer.
C4_MismatchFails ==
    ( /\ pc = "done" /\ op \in {"Nested::from_vec", "Image::from_vec"}
      /\ width * chan >= 1 /\ Len(flat) % (width * chan) # 0 ) => ~ret.ok

\* C5: get_dimensions of a Vec<Vec<P>> returns (length of the first row or 0
\* when there are no rows, number of rows); 4 rows of 8 give (8, 4) and no
\* rows give (0, 0).
C5_NestedDimensions ==
    (kind = "nested" /\ pc # "start") =>
        /\ dims = <<(IF Len(rows) = 0 THEN 0 ELSE Len(rows[1])), Len(rows)>>
        /\ (rows = NestedOf(<<8, 8, 8, 8>>) => dims = <<8, 4>>)
        /\ (rows = <<>> => dims = <<0, 0>>)

C5_Witness == kind = "nested" /\ rows = NestedOf(<<8, 8, 8, 8>>) /\ dims = <<8, 4>>

\* an image of width >= 1 was flattened (rows reversed) and nested rows were
\* rebuilt (rows kept) with the image's scanline length
C6_ImageToNested ==
    /\ kind = "image" /\ pc = "done" /\ op = "Nested::from_vec"
    /\ img.width >= 1 /\ width = img.width * img.channels

\* a rectangular Vec<Vec<P>> of width >= 1 was flattened (rows kept) and an
\* image rebuilt (rows reversed) with the same scanline length
C6_NestedToImage ==
    /\ kind = "nested" /\ pc = "done" /\ op = "Image::from_vec"
    /\ Rect(rows) /\ dims[1] >= 1 /\ width * chan = dims[1]

C7_DepthSlowestLayout ==
    (kind = "cube" /\ pc \in {"flat", "done"} /\ Box(cube)) =>
        LET w == dims[1]
            h == dims[2]
            d == dims[3]
        IN  /\ Len(flat) = w * h * d
            /\ \A z \in 0..(d - 1) : \A y \in 0..(h - 1) : \A x \in 0..(w - 1) :
                  flat[z * h * w + y * w + x + 1] = cube[z + 1][y + 1][x + 1]

C7_Witness ==
    /\ kind = "cube" /\ pc = "flat" /\ Box(cube)
    /\ dims[1] >= 2 /\ dims[2] >= 3 /\ dims[3] >= 2
    /\ Len(flat) = dims[1] * dims[2] * dims[3]

\* get_dimensions ran on a nested buffer that holds no pixels
C8_Empty2d == kind = "nested" /\ pc # "start" /\ Len(FlatMap(rows)) = 0

C8_Empty3d == kind = "cube" /\ pc # "start" /\ Len(FlatMap(FlatMap(cube))) = 0

\* C8 as stated: get_dimensions of a 2D or 3D nested buffer that holds no
\* pixels returns all zeros and never fails.
C8_EmptyIsAllZero ==
    /\ C8_Empty2d => dims = <<0, 0>>
    /\ C8_Empty3d => dims = <<0, 0, 0>>

\* C8 amended: get_dimensions of a buffer that holds no pixels never fails
\* and returns width 0, while height and depth still count the (empty) rows
\* and slices; the result is all zeros when there are no rows (2D) or no
\* slices (3D).
C8_EmptyHasZeroWidth ==
    /\ C8_Empty2d =>
          /\ dims = <<0, Len(rows)>>
          /\ (Len(rows) = 0 => dims = <<0, 0>>)
    /\ C8_Empty3d =>
          /\ dims = <<0, (IF Len(cube) = 0 THEN 0 ELSE Len(cube[1])), Len(cube)>>
          /\ (Len(cube) = 0 => dims = <<0, 0, 0>>)

C8_Witness == C8_Empty3d /\ Len(cube) = 2 /\ Len(cube[1]) = 1 /\ dims = <<0, 1, 2>>

\* C9: from_vec for &[P] and from_vec for Vec<Vec<Vec<P>>> abort for every
\* input and never return a buffer.
C9_UnsupportedFromVecPanics ==
    (pc = "done" /\ op \in {"Slice::from_vec", "Cube::from_vec"}) => ~ret.ok

C9_Witness ==
    /\ kind = "slice" /\ pc = "done" /\ op = "Slice::from_vec"
    /\ Len(flat) >= 2 /\ ~ret.ok

\* C10: into_vec of a Vec<P> returns its elements in order, and
\* from_vec(into_vec(B)) has the same length and elements as B.
C10_Vec1dRoundTrip ==
    /\ (kind = "vec" /\ pc \in {"flat", "done"}) => flat = vec
    /\ (kind = "vec" /\ pc = "done" /\ op = "Vec::from_vec") =>
          /\ ret.ok /\ Len(ret.val) = Len(vec)
          /\ \A i \in 1..Len(vec) : ret.val[i] = vec[i]

C10_Witness ==
    /\ kind = "vec" /\ pc = "done" /\ op = "Vec::from_vec"
    /\ Len(vec) >= 3 /\ vec[1] # vec[3] /\ ret.ok /\ ret.val = vec

====
